---- MODULE Spec2Model ----
(***************************************************************************)
(* Model of the dex session hub (src/dex/socket.go) and of the order       *)
(* factory (src/dex/order_factory.go).                                     *)
(*                                                                         *)
(* A Socket runs three goroutines: listenToMessagesIn (reads frames from   *)
(* the websocket and sends them on messagesIn), handleMessagesIn (routes   *)
(* messages to the engine) and handleMessagesOut (routes engine events to  *)
(* the websocket).  The engine and the websocket are external: the frames  *)
(* a client sends, the results the engine returns, the events it emits and *)
(* the outcome of a write are inputs, drawn from small sets.               *)
(*                                                                         *)
(* A panic in any goroutine ends the whole Go process: it is the process   *)
(* level state panicked, after which no goroutine takes a step.            *)
(***************************************************************************)
EXTENDS Integers, Sequences, FiniteSets, TLC

VARIABLES
    hubs,          \* the Sockets of the process (fixed by the initial state)
    chanCap,       \* capacity of the channels (fixed by the initial state)
    panicked,      \* the goroutine whose unrecovered panic ended the process
    connOpen,      \* connOpen[h]: the peer has not closed h's connection
    readErr,       \* history: the error ReadJSON returned on h, or "none"
    readPc,        \* listenToMessagesIn: "read" | "send" | "exited"
    readMsg,       \* the message listenToMessagesIn holds while at "send"
    messagesIn,    \* the channel s.messagesIn
    inPc,          \* handleMessagesIn: "recv" | "engine"
    inCall,        \* index in engineCalls of the call h is blocked in
    handled,       \* history: the messages handleMessagesIn has received
    events,        \* the channel s.events
    outPc,         \* handleMessagesOut: "recv" | "write"
    outMsg,        \* the message whose WriteJSON is in progress
    taken,         \* history: the events handleMessagesOut has received
    writes,        \* history: the WriteJSON calls made on s.connection
    engineCalls,   \* history: the calls made on s.server.engine
    sinks,         \* entities handed to the engine, with the channel attached
    nRead,         \* number of frames decoded so far (all hubs)
    nEmitted,      \* number of events emitted so far (all hubs)
    factory,       \* the OrderFactory's counters
    built,         \* history: the orders the factory returned, in call order
    messages,      \* history: the orders wrapped by NewOrderMessage
    calls,         \* history: the factory calls made, in call order
    callers,       \* callers[c]: where caller c is inside NewOrder
    overlapped     \* history: a NewOrder started while another was running

hubVars == <<hubs, chanCap, panicked, connOpen, readErr, readPc, readMsg, messagesIn, inPc, inCall,
             handled, events, outPc, outMsg, taken, writes, engineCalls, sinks,
             nRead, nEmitted>>
factoryVars == <<factory, built, messages, calls, callers, overlapped>>
vars == <<hubVars, factoryVars>>

----------------------------------------------------------------------------
(* Bounds of the model.                                                    *)

\* inputs of one run: frames decoded plus events emitted
MaxInputs == 3
\* largest capacity of the channels messagesIn and events
ChanCap == 2
\* factory calls in one run
MaxCalls == 3

AllHubs == {1, 2}

\* the goroutines that call the factory
Callers == {1, 2}

----------------------------------------------------------------------------
(* Messages, payloads and events.                                          *)

InboundKinds == {"PLACE_ORDER", "CANCEL_ORDER", "SIGNED_DATA"}

\* The MessageType of a frame is whatever the client wrote: "UNKNOWN" stands
\* for every string that handleMessagesIn has no case for.
MessageTypes == InboundKinds \cup {"DONE", "UNKNOWN"}

\* What a frame's Payload holds once ReadJSON has decoded it:
\*   wellFormed  a map with the fields the MessageType expects
\*   badFields   a map with the expected nesting whose fields do not decode
\*   noOrder     a value without a nested "order" map
Shapes == {"wellFormed", "badFields", "noOrder"}

\* The frames a client sends.  A payload without a nested order is told from
\* one whose fields do not decode only by placeOrder, and no handler looks at
\* the payload of a DONE or an unknown message.
Frames ==
    [MessageType : InboundKinds, shape : {"wellFormed", "badFields"}]
        \cup [MessageType : {"PLACE_ORDER"}, shape : {"noOrder"}]
        \cup [MessageType : {"DONE", "UNKNOWN"}, shape : {"wellFormed"}]

ReadErrors == {"close", "unexpectedClose", "invalidPayload", "other"}

EventTypes ==
    {"ORDER_PLACED", "ORDER_PARTIALLY_FILLED", "ORDER_FILLED", "ORDER_CANCELED",
     "ORDER_EXECUTED", "ORDER_TX_SUCCESS", "ORDER_TX_ERROR", "TRADE_EXECUTED",
     "TRADE_TX_SUCCESS", "TRADE_TX_ERROR"}

\* The concrete types an event's payload may have.
PayloadTypes == {"Order", "Trade", "TradePayload"}

NoPanic == [by |-> "none", hub |-> 0]

\* The process has ended in a panic.
crashed == panicked # NoPanic

NoMsg == [MessageType |-> "NONE", shape |-> "wellFormed", id |-> 0]
NoOut == [MessageType |-> "NONE", wrapper |-> "NONE", ent |-> 0, evid |-> 0]

----------------------------------------------------------------------------
(* Channels.  A channel is a FIFO queue of at most chanCap values: a send  *)
(* blocks while it is full, a receive while it is empty.  The channels of  *)
(* a Socket are made where the Socket is constructed, outside socket.go:   *)
(* their capacity is not known here, and the initial state picks one from  *)
(* 1 .. ChanCap.                                                           *)

ChanRecvLifo(q) == [val |-> q[Len(q)], rest |-> SubSeq(q, 1, Len(q) - 1)]

\* <-ch: the value received and what stays queued.
ChanRecv(q) == [val |-> Head(q), rest |-> Tail(q)]

ChanCanSend(q) == Len(q) < chanCap

----------------------------------------------------------------------------
(* The send* helpers: the Message each one hands to connection.WriteJSON.  *)
(* p is the event's payload, [type, ent].  The helpers that take an Order  *)
(* or a Trade wrap it in a fresh OrderPayload or TradePayload; the two     *)
(* that take a TradePayload pass it on as it is.                           *)

MessageEmptyPayload(kind, wrapper, p) ==
    [MessageType |-> kind, wrapper |-> wrapper, ent |-> 0]

Message(kind, wrapper, p) == [MessageType |-> kind, wrapper |-> wrapper, ent |-> p.ent]

sendOrderPlaced(p) == Message("ORDER_PLACED", "OrderPayload", p)
sendOrderFilled(p) == Message("ORDER_FILLED", "TradePayload", p)
sendOrderPartiallyFilled(p) == Message("ORDER_PARTIALLY_FILLED", "TradePayload", p)
sendOrderCanceled(p) == Message("ORDER_CANCELED", "OrderPayload", p)
sendOrderExecuted(p) == Message("ORDER_EXECUTED", "OrderPayload", p)
sendOrderTxSuccess(p) == Message("ORDER_TX_SUCCESS", "OrderPayload", p)
sendOrderTxError(p) == Message("ORDER_TX_ERROR", "OrderPayload", p)
sendTradeExecuted(p) == Message("TRADE_EXECUTED", "TradePayload", p)
sendTradeTxSuccess(p) == Message("TRADE_TX_SUCCESS", "TradePayload", p)
sendTradeTxError(p) == Message("TRADE_TX_ERROR", "TradePayload", p)

\* The concrete type each case of handleMessagesOut asserts of e.payload.
AssertedType(eventType) ==
    CASE eventType = "ORDER_PLACED" -> "Order"
      [] eventType = "ORDER_PARTIALLY_FILLED" -> "TradePayload"
      [] eventType = "ORDER_FILLED" -> "TradePayload"
      [] eventType = "ORDER_CANCELED" -> "Order"
      [] eventType = "ORDER_EXECUTED" -> "Order"
      [] eventType = "ORDER_TX_SUCCESS" -> "Order"
      [] eventType = "ORDER_TX_ERROR" -> "Order"
      [] eventType = "TRADE_EXECUTED" -> "Trade"
      [] eventType = "TRADE_TX_SUCCESS" -> "Trade"
      [] eventType = "TRADE_TX_ERROR" -> "Trade"
      [] OTHER -> "NONE"

\* The send helper each case of handleMessagesOut calls, applied to the payload.
RouteEvent(e) ==
    LET p == [type |-> e.ptype, ent |-> e.ent] IN
    CASE e.eventType = "ORDER_PLACED" -> sendOrderPlaced(p)
      [] e.eventType = "ORDER_PARTIALLY_FILLED" -> sendOrderPartiallyFilled(p)
      [] e.eventType = "ORDER_FILLED" -> sendOrderFilled(p)
      [] e.eventType = "ORDER_CANCELED" -> sendOrderCanceled(p)
      [] e.eventType = "ORDER_EXECUTED" -> sendOrderExecuted(p)
      [] e.eventType = "ORDER_TX_SUCCESS" -> sendOrderTxSuccess(p)
      [] e.eventType = "ORDER_TX_ERROR" -> sendOrderTxSuccess(p)
      [] e.eventType = "TRADE_EXECUTED" -> sendTradeExecuted(p)
      [] e.eventType = "TRADE_TX_SUCCESS" -> sendTradeTxSuccess(p)
      [] e.eventType = "TRADE_TX_ERROR" -> sendTradeTxSuccess(p)

\* The events the engine emits: each kind with the payload type its case
\* asserts, DONE, a kind without a case, and kinds with a payload of another
\* type than their case asserts.
EventInputs ==
    {[eventType |-> k, ptype |-> AssertedType(k)] : k \in EventTypes}
        \cup [eventType : {"DONE", "UNKNOWN"}, ptype : {"Order"}]
        \cup {[eventType |-> "ORDER_FILLED", ptype |-> "Trade"],
              [eventType |-> "ORDER_PLACED", ptype |-> "Trade"],
              [eventType |-> "TRADE_EXECUTED", ptype |-> "Order"]}

\* An event that reaches a send helper: a case of the switch other than DONE
\* whose type assertion succeeds.
Sendable(e) == e.eventType \in EventTypes /\ e.ptype = AssertedType(e.eventType)

PanicsOutOnDone(e) == ~Sendable(e)

PanicsOutUnknownKindOnly(e) == e.eventType \notin EventTypes \cup {"DONE"}

\* An event on which handleMessagesOut panics: the default case, or a failed
\* type assertion.
PanicsOut(e) == e.eventType # "DONE" /\ ~Sendable(e)

----------------------------------------------------------------------------
(* Initial state: every goroutine of every Socket at the top of its loop.  *)

InitHubs(H) ==
    /\ hubs = H
    /\ chanCap \in 1..ChanCap
    /\ panicked = NoPanic
    /\ connOpen = [h \in AllHubs |-> TRUE]
    /\ readErr = [h \in AllHubs |-> "none"]
    /\ readPc = [h \in AllHubs |-> "read"]
    /\ readMsg = [h \in AllHubs |-> NoMsg]
    /\ messagesIn = [h \in AllHubs |-> <<>>]
    /\ inPc = [h \in AllHubs |-> "recv"]
    /\ inCall = [h \in AllHubs |-> 0]
    /\ handled = [h \in AllHubs |-> <<>>]
    /\ events = [h \in AllHubs |-> <<>>]
    /\ outPc = [h \in AllHubs |-> "recv"]
    /\ outMsg = [h \in AllHubs |-> NoOut]
    /\ taken = [h \in AllHubs |-> <<>>]
    /\ writes = [h \in AllHubs |-> <<>>]
    /\ engineCalls = <<>>
    /\ sinks = {}
    /\ nRead = 0
    /\ nEmitted = 0

\* NewOrderFactory: CurrentOrderID is set to 0, the nonce counters are left
\* at their zero value.
NewOrderFactory == [CurrentOrderID |-> 0, OrderNonce |-> 0, TradeNonce |-> 0]

InitFactory ==
    /\ factory = NewOrderFactory
    /\ built = <<>>
    /\ messages = <<>>
    /\ calls = <<>>
    /\ callers = [c \in Callers |-> [pc |-> "ready"]]
    /\ overlapped = FALSE

Init == InitHubs({1}) /\ InitFactory

----------------------------------------------------------------------------
(* listenToMessagesIn                                                      *)

\* ReadJSON returns a decoded frame; the loop goes on to send it.
ReadFrame(h) ==
    /\ ~crashed /\ readPc[h] = "read" /\ connOpen[h]
    /\ nRead + nEmitted < MaxInputs
    /\ \E f \in Frames :
          readMsg' = [readMsg EXCEPT ![h] =
                        [MessageType |-> f.MessageType, shape |-> f.shape,
                         id |-> nRead + 1]]
    /\ nRead' = nRead + 1
    /\ readPc' = [readPc EXCEPT ![h] = "send"]
    /\ UNCHANGED <<hubs, chanCap, panicked, connOpen, readErr, messagesIn, inPc, inCall, handled,
                   events, outPc, outMsg, taken, writes, engineCalls, sinks,
                   nEmitted,
                   factoryVars>>

ReadFailSkipsInvalidPayload(h) ==
    /\ ~crashed /\ readPc[h] = "read" /\ connOpen[h]
    /\ \E err \in ReadErrors :
          /\ connOpen' = [connOpen EXCEPT ![h] = (err = "invalidPayload")]
          /\ readErr' = [readErr EXCEPT ![h] = err]
          /\ readPc' = [readPc EXCEPT ![h] =
                          IF err = "invalidPayload" THEN "read" ELSE "exited"]
    /\ UNCHANGED <<hubs, chanCap, panicked, readMsg, messagesIn, inPc, inCall, handled,
                   events, outPc, outMsg, taken, writes, engineCalls, sinks,
                   nRead, nEmitted,
                   factoryVars>>

\* ReadJSON returns an error: the loop breaks, whatever the error.
ReadFail(h) ==
    /\ ~crashed /\ readPc[h] = "read" /\ connOpen[h]
    /\ \E err \in ReadErrors :
          /\ connOpen' = [connOpen EXCEPT ![h] = (err = "invalidPayload")]
          /\ readErr' = [readErr EXCEPT ![h] = err]
    /\ readPc' = [readPc EXCEPT ![h] = "exited"]
    /\ UNCHANGED <<hubs, chanCap, panicked, readMsg, messagesIn, inPc, inCall, handled,
                   events, outPc, outMsg, taken, writes, engineCalls, sinks,
                   nRead, nEmitted,
                   factoryVars>>

PushMessageInToIdleDispatch(h) ==
    /\ ~crashed /\ readPc[h] = "send"
    /\ ChanCanSend(messagesIn[h])
    /\ inPc[h] = "recv"
    /\ messagesIn' = [messagesIn EXCEPT ![h] = Append(@, readMsg[h])]
    /\ readMsg' = [readMsg EXCEPT ![h] = NoMsg]
    /\ readPc' = [readPc EXCEPT ![h] = "read"]
    /\ UNCHANGED <<hubs, chanCap, panicked, connOpen, readErr, inPc, inCall, handled, events,
                   outPc, outMsg, taken, writes, engineCalls, sinks, nRead,
                   nEmitted,
                   factoryVars>>

\* s.messagesIn <- message
PushMessageIn(h) ==
    /\ ~crashed /\ readPc[h] = "send"
    /\ ChanCanSend(messagesIn[h])
    /\ messagesIn' = [messagesIn EXCEPT ![h] = Append(@, readMsg[h])]
    /\ readMsg' = [readMsg EXCEPT ![h] = NoMsg]
    /\ readPc' = [readPc EXCEPT ![h] = "read"]
    /\ UNCHANGED <<hubs, chanCap, panicked, connOpen, readErr, inPc, inCall, handled, events,
                   outPc, outMsg, taken, writes, engineCalls, sinks, nRead,
                   nEmitted,
                   factoryVars>>

listenToMessagesIn(h) == ReadFrame(h) \/ ReadFail(h) \/ PushMessageIn(h)

----------------------------------------------------------------------------
(* handleMessagesIn and the three handlers it calls.                       *)
(*                                                                         *)
(* A handler that reaches its engine call records the call and leaves the  *)
(* goroutine inside the engine (inPc = "engine") until EngineReturn.  A    *)
(* call record holds: op, the engine operation; msg, the id of the message *)
(* that caused it; decoded, whether the entity passed was decoded without  *)
(* error; hub, the caller; sink, the hub whose events channel is attached  *)
(* to the entity (0: none); ret, "pending" | "ok" | "err".                 *)

EngineCall(op, m, h, sink) ==
    [op |-> op, msg |-> m.id, decoded |-> (m.shape = "wellFormed"), hub |-> h,
     sink |-> sink, ret |-> "pending"]

\* The handler calls the engine with the entity built from m.
Submit(h, op, m, sink) ==
    /\ engineCalls' = Append(engineCalls, EngineCall(op, m, h, sink))
    /\ inCall' = [inCall EXCEPT ![h] = Len(engineCalls) + 1]
    /\ inPc' = [inPc EXCEPT ![h] = "engine"]
    /\ sinks' = IF sink = 0 THEN sinks
                ELSE sinks \cup {[ent |-> IF m.shape = "wellFormed" THEN m.id ELSE 0,
                                  hub |-> sink]}
    /\ UNCHANGED panicked

\* The handler panics before it reaches the engine.
Panic(h) ==
    /\ panicked' = [by |-> "handleMessagesIn", hub |-> h]
    /\ UNCHANGED <<engineCalls, inCall, inPc, sinks>>

placeOrderSharedSink(h, m) ==
    IF m.shape = "noOrder" THEN Panic(h) ELSE Submit(h, "AddOrder", m, 1)

\* p.(map[string]interface{})["order"].(map[string]interface{}) panics when
\* the payload holds no nested order map.  The result of o.Decode is not
\* looked at: the order goes to AddOrder, with s.events attached, whether or
\* not its fields decoded.
placeOrder(h, m) ==
    IF m.shape = "noOrder" THEN Panic(h) ELSE Submit(h, "AddOrder", m, h)

\* A decode error is logged and the function goes on: ocp.OrderCancel, as
\* NewOrderCancelPayload left it, goes to CancelOrder.
cancelOrder(h, m) == Submit(h, "CancelOrder", m, 0)

\* A decode error is logged and the function goes on with tp.Trade as
\* NewTradePayload left it: t.events = s.events panics if that is a nil
\* pointer, and otherwise the empty trade goes to ExecuteOrder.
executeOrder(h, m) ==
    \/ Submit(h, "ExecuteOrder", m, h)
    \/ /\ m.shape # "wellFormed"
       /\ Panic(h)

handleMessagesIn(h) ==
    /\ ~crashed /\ inPc[h] = "recv"
    /\ messagesIn[h] # <<>>
    /\ LET r == ChanRecv(messagesIn[h])
           m == r.val
       IN /\ messagesIn' = [messagesIn EXCEPT ![h] = r.rest]
          /\ handled' = [handled EXCEPT ![h] = Append(@, m)]
          /\ CASE m.MessageType = "PLACE_ORDER" -> placeOrder(h, m)
               [] m.MessageType = "CANCEL_ORDER" -> cancelOrder(h, m)
               [] m.MessageType = "SIGNED_DATA" -> executeOrder(h, m)
               [] m.MessageType = "DONE" ->
                    UNCHANGED <<engineCalls, inCall, inPc, sinks, panicked>>
               [] OTHER -> Panic(h)
    /\ UNCHANGED <<hubs, chanCap, connOpen, readErr, readPc, readMsg, events, outPc, outMsg, taken,
                   writes, nRead, nEmitted,
                   factoryVars>>

EngineReturnReply(h, err) ==
    /\ ~crashed /\ inPc[h] = "engine"
    /\ engineCalls' = [engineCalls EXCEPT ![inCall[h]].ret =
                          IF err THEN "err" ELSE "ok"]
    /\ inCall' = [inCall EXCEPT ![h] = 0]
    /\ inPc' = [inPc EXCEPT ![h] = "recv"]
    /\ writes' = IF err
                   THEN [writes EXCEPT ![h] =
                           Append(@, [MessageType |-> "ERROR", wrapper |-> "NONE",
                                      ent |-> engineCalls[inCall[h]].msg,
                                      evid |-> 0, ok |-> connOpen[h]])]
                   ELSE writes
    /\ UNCHANGED <<hubs, chanCap, panicked, connOpen, readErr, readPc, readMsg, messagesIn, handled,
                   events, outPc, outMsg, taken, sinks, nRead, nEmitted,
                   factoryVars>>

EngineReturnWritesError(h, err) ==
    /\ ~crashed /\ inPc[h] = "engine"
    /\ engineCalls' = [engineCalls EXCEPT ![inCall[h]].ret =
                          IF err THEN "err" ELSE "ok"]
    /\ inCall' = [inCall EXCEPT ![h] = 0]
    /\ inPc' = [inPc EXCEPT ![h] = IF err THEN "write" ELSE "recv"]
    /\ UNCHANGED <<hubs, chanCap, panicked, connOpen, readErr, readPc, readMsg, messagesIn, handled,
                   events, outPc, outMsg, taken, writes, sinks, nRead, nEmitted,
                   factoryVars>>

\* The engine call returns.  An error is logged, nothing else: the handler
\* returns and handleMessagesIn is back at the top of its loop.
EngineReturn(h, err) ==
    /\ ~crashed /\ inPc[h] = "engine"
    /\ engineCalls' = [engineCalls EXCEPT ![inCall[h]].ret =
                          IF err THEN "err" ELSE "ok"]
    /\ inCall' = [inCall EXCEPT ![h] = 0]
    /\ inPc' = [inPc EXCEPT ![h] = "recv"]
    /\ UNCHANGED <<hubs, chanCap, panicked, connOpen, readErr, readPc, readMsg, messagesIn, handled,
                   events, outPc, outMsg, taken, writes, sinks, nRead, nEmitted,
                   factoryVars>>

----------------------------------------------------------------------------
(* The engine emits an event on the events channel attached to an entity   *)
(* it was handed.                                                          *)

EngineEmit(h) ==
    /\ ~crashed
    /\ nRead + nEmitted < MaxInputs
    /\ ChanCanSend(events[h])
    /\ \E s \in sinks, i \in EventInputs :
          /\ s.hub = h
          /\ events' = [events EXCEPT ![h] =
                          Append(@, [eventType |-> i.eventType, ptype |-> i.ptype,
                                     ent |-> s.ent, evid |-> nEmitted + 1])]
    /\ nEmitted' = nEmitted + 1
    /\ UNCHANGED <<hubs, chanCap, panicked, connOpen, readErr, readPc, readMsg, messagesIn, inPc,
                   inCall, handled, outPc, outMsg, taken, writes, engineCalls,
                   sinks, nRead,
                   factoryVars>>

----------------------------------------------------------------------------
(* handleMessagesOut                                                       *)

\* e := <-s.events and the switch, up to the call of WriteJSON.
TakeEvent(h) ==
    /\ ~crashed /\ outPc[h] = "recv"
    /\ events[h] # <<>>
    /\ LET r == ChanRecv(events[h])
           e == r.val
       IN /\ events' = [events EXCEPT ![h] = r.rest]
          /\ taken' = [taken EXCEPT ![h] = Append(@, e)]
          /\ panicked' = IF PanicsOut(e)
                          THEN [by |-> "handleMessagesOut", hub |-> h]
                          ELSE panicked
          /\ IF Sendable(e)
               THEN /\ outMsg' = [outMsg EXCEPT ![h] =
                          [MessageType |-> RouteEvent(e).MessageType,
                           wrapper |-> RouteEvent(e).wrapper,
                           ent |-> RouteEvent(e).ent, evid |-> e.evid]]
                    /\ outPc' = [outPc EXCEPT ![h] = "write"]
               ELSE UNCHANGED <<outMsg, outPc>>
    /\ UNCHANGED <<hubs, chanCap, connOpen, readErr, readPc, readMsg, messagesIn, inPc, inCall,
                   handled, writes, engineCalls, sinks, nRead, nEmitted,
                   factoryVars>>

WriteJSONEndsLoopOnError(h, ok) ==
    /\ ~crashed /\ outPc[h] = "write"
    /\ ok => connOpen[h]
    /\ writes' = [writes EXCEPT ![h] =
                    Append(@, [MessageType |-> outMsg[h].MessageType,
                               wrapper |-> outMsg[h].wrapper, ent |-> outMsg[h].ent,
                               evid |-> outMsg[h].evid, ok |-> ok])]
    /\ outMsg' = [outMsg EXCEPT ![h] = NoOut]
    /\ outPc' = [outPc EXCEPT ![h] = IF ok THEN "recv" ELSE "exited"]
    /\ UNCHANGED <<hubs, chanCap, panicked, connOpen, readErr, readPc, readMsg, messagesIn, inPc,
                   inCall, handled, events, taken, engineCalls, sinks, nRead,
                   nEmitted,
                   factoryVars>>

\* s.connection.WriteJSON(&m) returns.  The send helper returns the error
\* and handleMessagesOut drops it: the loop is back at its top either way.
WriteJSON(h, ok) ==
    /\ ~crashed /\ outPc[h] = "write"
    /\ ok => connOpen[h]
    /\ writes' = [writes EXCEPT ![h] =
                    Append(@, [MessageType |-> outMsg[h].MessageType,
                               wrapper |-> outMsg[h].wrapper, ent |-> outMsg[h].ent,
                               evid |-> outMsg[h].evid, ok |-> ok])]
    /\ outMsg' = [outMsg EXCEPT ![h] = NoOut]
    /\ outPc' = [outPc EXCEPT ![h] = "recv"]
    /\ UNCHANGED <<hubs, chanCap, panicked, connOpen, readErr, readPc, readMsg, messagesIn, inPc,
                   inCall, handled, events, taken, engineCalls, sinks, nRead,
                   nEmitted,
                   factoryVars>>

handleMessagesOut(h) == TakeEvent(h) \/ \E ok \in BOOLEAN : WriteJSON(h, ok)

----------------------------------------------------------------------------
(* The hub's specification.                                                *)

HubNext ==
    \/ \E h \in hubs : ReadFrame(h)
    \/ \E h \in hubs : ReadFail(h)
    \/ \E h \in hubs : PushMessageIn(h)
    \/ \E h \in hubs : handleMessagesIn(h)
    \/ \E h \in hubs, err \in BOOLEAN : EngineReturn(h, err)
    \/ \E h \in hubs : EngineEmit(h)
    \/ \E h \in hubs : TakeEvent(h)
    \/ \E h \in hubs, ok \in BOOLEAN : WriteJSON(h, ok)

Next == HubNext

Spec == Init /\ [][Next]_vars

\* Two Sockets in one process, on one engine, with channels of capacity 1.
\* Hub 1 is the hub whose connection may fail; the client of hub 2 stays
\* connected for the whole run.
InitTwoHubs == InitHubs({1, 2}) /\ chanCap = 1 /\ InitFactory

TwoHubsNext ==
    \/ \E h \in hubs : ReadFrame(h)
    \/ ReadFail(1)
    \/ \E h \in hubs : PushMessageIn(h)
    \/ \E h \in hubs : handleMessagesIn(h)
    \/ \E h \in hubs, err \in BOOLEAN : EngineReturn(h, err)
    \/ \E h \in hubs : EngineEmit(h)
    \/ \E h \in hubs : TakeEvent(h)
    \/ \E h \in hubs, ok \in BOOLEAN : WriteJSON(h, ok)

SpecTwoHubs == InitTwoHubs /\ [][TwoHubsNext]_vars

----------------------------------------------------------------------------
(* The order factory.  One caller: each method runs from its first line to *)
(* its return before the next call starts.                                 *)

Tokens == {"A", "B"}

\* amounts passed as int64 arguments
Amounts == {50, 100}

\* NonceGenerator.Intn(NonceLimit) returns a value in 0 .. NonceLimit - 1.
NonceLimit == 1000
Nonces == {0, NonceLimit - 1}

NextOrderIDStuck(id) == id

\* f.CurrentOrderID++
NextOrderID(id) == id + 1

\* The Order NewOrder builds in factory state f.  Hash stands for the hash
\* o.Sign derives from the order's fields.
BuildOrder(f, tokenBuy, amountBuy, tokenSell, amountSell, nonce) ==
    [Id |-> f.CurrentOrderID, TokenBuy |-> tokenBuy, TokenSell |-> tokenSell,
     AmountBuy |-> amountBuy, AmountSell |-> amountSell, Nonce |-> nonce,
     Hash |-> <<f.CurrentOrderID, tokenBuy, amountBuy, tokenSell, amountSell, nonce>>,
     Signed |-> TRUE]

\* NewOrder's result: the order returned and the factory it leaves.
NewOrderResult(f, tokenBuy, amountBuy, tokenSell, amountSell, nonce) ==
    [o |-> BuildOrder(f, tokenBuy, amountBuy, tokenSell, amountSell, nonce),
     f |-> [f EXCEPT !.OrderNonce = @ + 1,
                     !.CurrentOrderID = NextOrderID(@)]]

Call(fn, after) == [fn |-> fn, before |-> factory, after |-> after]

NewOrder(tokenBuy, amountBuy, tokenSell, amountSell, nonce) ==
    /\ Len(calls) < MaxCalls
    /\ LET r == NewOrderResult(factory, tokenBuy, amountBuy, tokenSell, amountSell, nonce)
       IN /\ factory' = r.f
          /\ built' = Append(built, r.o)
          /\ calls' = Append(calls, Call("NewOrder", r.f))
    /\ UNCHANGED <<messages, callers, overlapped, hubVars>>

\* NewOrderMessage hands amountBuy to NewOrder for both amounts.
NewOrderMessage(tokenBuy, amountBuy, tokenSell, amountSell, nonce) ==
    /\ Len(calls) < MaxCalls
    /\ LET r == NewOrderResult(factory, tokenBuy, amountBuy, tokenSell, amountBuy, nonce)
       IN /\ factory' = r.f
          /\ built' = Append(built, r.o)
          /\ messages' = Append(messages,
                [tokenBuy |-> tokenBuy, amountBuy |-> amountBuy,
                 tokenSell |-> tokenSell, amountSell |-> amountSell, nonce |-> nonce,
                 before |-> factory,
                 m |-> [MessageType |-> "PLACE_ORDER", order |-> r.o]])
          /\ calls' = Append(calls, Call("NewOrderMessage", r.f))
    /\ UNCHANGED <<callers, overlapped, hubVars>>

NewTradeCountsAsOrder(o, amount, nonce) ==
    /\ Len(calls) < MaxCalls
    /\ factory' = [factory EXCEPT !.OrderNonce = @ + 1]
    /\ calls' = Append(calls, Call("NewTrade", factory'))
    /\ UNCHANGED <<built, messages, callers, overlapped, hubVars>>

\* NewTrade(o, amount): the trade is returned to the caller; the factory
\* keeps only the count.
NewTrade(o, amount, nonce) ==
    /\ Len(calls) < MaxCalls
    /\ factory' = [factory EXCEPT !.TradeNonce = @ + 1]
    /\ calls' = Append(calls, Call("NewTrade", factory'))
    /\ UNCHANGED <<built, messages, callers, overlapped, hubVars>>

\* NewOrderCancel(o) and NewCancelOrderMessage(o), which wraps its result.
NewOrderCancel(o) ==
    /\ Len(calls) < MaxCalls
    /\ calls' = Append(calls, Call("NewOrderCancel", factory))
    /\ UNCHANGED <<factory, built, messages, callers, overlapped, hubVars>>

NewCancelOrderMessage(o) ==
    /\ Len(calls) < MaxCalls
    /\ calls' = Append(calls, Call("NewCancelOrderMessage", factory))
    /\ UNCHANGED <<factory, built, messages, callers, overlapped, hubVars>>

\* An order the caller holds: one the factory returned earlier.
Held == {built[i] : i \in 1..Len(built)}

FactoryNext ==
    \/ \E tb \in Tokens, ab \in Amounts, ts \in Tokens, as \in Amounts, n \in Nonces :
          tb # ts /\ NewOrder(tb, ab, ts, as, n)
    \/ \E tb \in Tokens, ab \in Amounts, ts \in Tokens, as \in Amounts, n \in Nonces :
          tb # ts /\ NewOrderMessage(tb, ab, ts, as, n)
    \/ \E o \in Held, a \in Amounts, n \in Nonces : NewTrade(o, a, n)
    \/ \E o \in Held : NewOrderCancel(o)
    \/ \E o \in Held : NewCancelOrderMessage(o)

\* The factory is used beside one hub that stays idle.
InitIdleHub == Init /\ chanCap = 1

SpecFactory == InitIdleHub /\ [][FactoryNext]_vars

----------------------------------------------------------------------------
(* NewOrder called from several goroutines without a lock.  The accesses   *)
(* to f.CurrentOrderID and f.OrderNonce are plain loads and stores, so     *)
(* the calls interleave between them.                                      *)

InNewOrder(c) == callers[c].pc # "ready"

\* o := &Order{} ... o.Sign(f.Wallet): the order is built from the value of
\* f.CurrentOrderID loaded at the first assignment.
NewOrderBegin(c, tokenBuy, amountBuy, tokenSell, amountSell, nonce) ==
    /\ callers[c].pc = "ready"
    /\ Len(calls) + Cardinality({d \in Callers : InNewOrder(d)}) < MaxCalls
    /\ callers' = [callers EXCEPT ![c] =
          [pc |-> "built", before |-> factory,
           o |-> BuildOrder(factory, tokenBuy, amountBuy, tokenSell, amountSell, nonce)]]
    /\ overlapped' = (overlapped \/ \E d \in Callers \ {c} : InNewOrder(d))
    /\ UNCHANGED <<factory, built, messages, calls, hubVars>>

\* f.OrderNonce++ : the load
LoadOrderNonce(c) ==
    /\ callers[c].pc = "built"
    /\ callers' = [callers EXCEPT ![c] =
          [pc |-> "nonceLoaded", before |-> @.before, o |-> @.o,
           tmp |-> factory.OrderNonce]]
    /\ UNCHANGED <<factory, built, messages, calls, overlapped, hubVars>>

\* f.OrderNonce++ : the store
StoreOrderNonce(c) ==
    /\ callers[c].pc = "nonceLoaded"
    /\ factory' = [factory EXCEPT !.OrderNonce = callers[c].tmp + 1]
    /\ callers' = [callers EXCEPT ![c] =
          [pc |-> "nonceStored", before |-> @.before, o |-> @.o]]
    /\ UNCHANGED <<built, messages, calls, overlapped, hubVars>>

\* f.CurrentOrderID++ : the load
LoadCurrentOrderID(c) ==
    /\ callers[c].pc = "nonceStored"
    /\ callers' = [callers EXCEPT ![c] =
          [pc |-> "idLoaded", before |-> @.before, o |-> @.o,
           tmp |-> factory.CurrentOrderID]]
    /\ UNCHANGED <<factory, built, messages, calls, overlapped, hubVars>>

StoreOrderIDDropped(f, loaded) == f

\* f.CurrentOrderID++ : the store of the loaded value plus one
StoreOrderID(f, loaded) == [f EXCEPT !.CurrentOrderID = NextOrderID(loaded)]

\* f.CurrentOrderID++ : the store, and return o, nil
StoreCurrentOrderID(c) ==
    /\ callers[c].pc = "idLoaded"
    /\ factory' = StoreOrderID(factory, callers[c].tmp)
    /\ built' = Append(built, callers[c].o)
    /\ calls' = Append(calls, [fn |-> "NewOrder", before |-> callers[c].before,
                                after |-> factory'])
    /\ callers' = [callers EXCEPT ![c] = [pc |-> "ready"]]
    /\ UNCHANGED <<messages, overlapped, hubVars>>

\* The callers ask for orders that buy and sell the same amount.
FactoryRaceNext ==
    \/ \E c \in Callers, tb \in Tokens, a \in Amounts, ts \in Tokens, n \in Nonces :
          tb # ts /\ NewOrderBegin(c, tb, a, ts, a, n)
    \/ \E c \in Callers : LoadOrderNonce(c)
    \/ \E c \in Callers : StoreOrderNonce(c)
    \/ \E c \in Callers : LoadCurrentOrderID(c)
    \/ \E c \in Callers : StoreCurrentOrderID(c)

SpecFactoryRace == InitIdleHub /\ [][FactoryRaceNext]_vars

----------------------------------------------------------------------------
(* Properties of the order factory.                                        *)

\* C4: the orders one factory returns carry the ids 0, 1, 2, ... in call
\* order, without gap or repetition, and every call that builds an order
\* leaves OrderNonce larger than it found it.
C4_OrderIdsGapFree ==
    /\ \A i \in 1..Len(built) : built[i].Id = i - 1
    /\ \A i, j \in 1..Len(built) : i # j => built[i].Id # built[j].Id
    /\ \A i \in 1..Len(calls) :
          calls[i].fn \in {"NewOrder", "NewOrderMessage"}
              => calls[i].after.OrderNonce > calls[i].before.OrderNonce

\* Three calls of NewOrder, and nothing else, on the fresh factory.
C4_ThreeOrdersBuilt ==
    /\ Len(built) = 3
    /\ \A i \in 1..Len(calls) : calls[i].fn = "NewOrder"

\* C13: as long as no NewOrder call has started while another was running,
\* the orders returned carry the ids 0, 1, 2, ... and, between calls, both
\* CurrentOrderID and OrderNonce equal the number of orders returned.
C13_SerializedCallsKeepIdsDistinct ==
    ~overlapped =>
        /\ \A i \in 1..Len(built) : built[i].Id = i - 1
        /\ (\A c \in Callers : ~InNewOrder(c)) =>
              /\ factory.CurrentOrderID = Len(built)
              /\ factory.OrderNonce = Len(built)

\* Two interleaved calls have returned two orders with the same Id and one
\* increment of each counter is lost.
C13_DuplicateIdAndLostIncrement ==
    /\ \A c \in Callers : ~InNewOrder(c)
    /\ Len(built) = 2
    /\ built[1].Id = built[2].Id
    /\ factory.CurrentOrderID = 1
    /\ factory.OrderNonce = 1

\* The number of calls of fn made so far.
CallCount(fn) == Cardinality({i \in 1..Len(calls) : calls[i].fn = fn})

\* C19: CurrentOrderID and OrderNonce both equal the number of orders built
\* and TradeNonce the number of NewTrade calls; each call starts from the
\* counters the call before it left and lowers none of them; NewTrade adds
\* one to TradeNonce and changes nothing else; NewOrderCancel and
\* NewCancelOrderMessage change nothing.
C19_CountersCountCalls ==
    /\ factory.CurrentOrderID = Len(built)
    /\ factory.OrderNonce = Len(built)
    /\ Len(built) = CallCount("NewOrder") + CallCount("NewOrderMessage")
    /\ factory.TradeNonce = CallCount("NewTrade")
    /\ \A i \in 1..Len(calls) :
          LET c == calls[i] IN
          /\ c.before = (IF i = 1 THEN NewOrderFactory ELSE calls[i - 1].after)
          /\ i = Len(calls) => c.after = factory
          /\ c.after.CurrentOrderID >= c.before.CurrentOrderID
          /\ c.after.OrderNonce >= c.before.OrderNonce
          /\ c.after.TradeNonce >= c.before.TradeNonce
          /\ c.fn = "NewTrade" =>
                c.after = [c.before EXCEPT !.TradeNonce = @ + 1]
          /\ c.fn \in {"NewOrderCancel", "NewCancelOrderMessage"} =>
                c.after = c.before

\* An order message, a trade on its order and a cancel message for it have
\* been built, in this order.
C19_OrderTradeCancelBuilt ==
    /\ Len(calls) = 3
    /\ calls[1].fn = "NewOrderMessage"
    /\ calls[2].fn = "NewTrade"
    /\ calls[3].fn = "NewCancelOrderMessage"

\* C6: the message NewOrderMessage returns wraps the order NewOrder builds
\* from the same arguments in the same factory state; its amounts are the
\* two amounts passed.
C6_OrderMessageWrapsNewOrder ==
    \A i \in 1..Len(messages) :
        LET c == messages[i] IN
        /\ c.m.MessageType = "PLACE_ORDER"
        /\ c.m.order.AmountBuy = c.amountBuy
        /\ c.m.order.AmountSell = c.amountSell
        /\ c.m.order = NewOrderResult(c.before, c.tokenBuy, c.amountBuy,
                                      c.tokenSell, c.amountSell, c.nonce).o

----------------------------------------------------------------------------
(* Properties of the hub.                                                  *)

\* The engine calls hub h has made, in the order it made them.
CallsOf(h) == SelectSeq(engineCalls, LAMBDA c : c.hub = h)

\* The engine operation the interface table gives for a message kind.
EngineOp(kind) ==
    CASE kind = "PLACE_ORDER" -> "AddOrder"
      [] kind = "CANCEL_ORDER" -> "CancelOrder"
      [] kind = "SIGNED_DATA" -> "ExecuteOrder"

IsInbound(m) == m.MessageType \in InboundKinds

\* handleMessagesIn panicked on the last message hub h received.
PanickedIn(h) == panicked = [by |-> "handleMessagesIn", hub |-> h]

\* The writes made or in progress on h's connection, oldest first.
Attempts(h) ==
    [i \in 1..Len(writes[h]) |->
        [MessageType |-> writes[h][i].MessageType, wrapper |-> writes[h][i].wrapper,
         ent |-> writes[h][i].ent, evid |-> writes[h][i].evid]]
        \o (IF outPc[h] = "write" THEN <<outMsg[h]>> ELSE <<>>)

\* The positions in Attempts(h) of the writes made for event e.
AttemptsFor(h, e) == {i \in 1..Len(Attempts(h)) : Attempts(h)[i].evid = e.evid}

\* C1: the engine calls of a hub are, in order, one call of the matching
\* operation for each PLACE_ORDER, CANCEL_ORDER or SIGNED_DATA message it
\* has received.
C1_OneEngineCallPerMessageInOrder ==
    \A h \in hubs :
        LET ms == SelectSeq(handled[h], IsInbound)
            cs == CallsOf(h)
        IN /\ Len(cs) = Len(ms)
           /\ \A i \in 1..Len(ms) :
                 /\ cs[i].op = EngineOp(ms[i].MessageType)
                 /\ cs[i].msg = ms[i].id

\* C2: every message written has the kind of the event it was written for.
C2_OutboundKindIsEventKind ==
    \A h \in hubs :
        \A j \in 1..Len(taken[h]) :
            \A i \in AttemptsFor(h, taken[h][j]) :
                Attempts(h)[i].MessageType = taken[h][j].eventType

\* C3 as stated: every event other than DONE that handleMessagesOut has
\* received has exactly one write, and the write carries the event's entity.
C3_OneWritePerNonDoneEvent ==
    \A h \in hubs :
        \A j \in 1..Len(taken[h]) :
            LET e == taken[h][j] IN
            e.eventType # "DONE" =>
                /\ Cardinality(AttemptsFor(h, e)) = 1
                /\ \A i \in AttemptsFor(h, e) : Attempts(h)[i].ent = e.ent

\* C3 as amended: every received event of a kind the switch has a send case
\* for, with a payload of the type that case asserts, has exactly one write,
\* which carries the event's entity; every other event has none; and there
\* is no write without an event.
C3_OneWritePerSendableEvent ==
    \A h \in hubs :
        /\ \A j \in 1..Len(taken[h]) :
              LET e == taken[h][j] IN
              /\ Sendable(e) =>
                    /\ Cardinality(AttemptsFor(h, e)) = 1
                    /\ \A i \in AttemptsFor(h, e) : Attempts(h)[i].ent = e.ent
              /\ ~Sendable(e) => AttemptsFor(h, e) = {}
        /\ \A i \in 1..Len(Attempts(h)) :
              \E j \in 1..Len(taken[h]) : taken[h][j].evid = Attempts(h)[i].evid

\* An ORDER_FILLED event with a trade payload has been written out.
C3_OrderFilledWritten ==
    \E h \in hubs :
        \E i \in 1..Len(writes[h]), j \in 1..Len(taken[h]) :
            /\ taken[h][j].eventType = "ORDER_FILLED"
            /\ taken[h][j].ent # 0
            /\ writes[h][i].evid = taken[h][j].evid
            /\ writes[h][i].wrapper = "TradePayload"
            /\ writes[h][i].ok

\* C5: a PLACE_ORDER message without a nested order causes no engine call
\* and no panic, and the loop is back at its receive.
C5_PlaceOrderWithoutOrderDropped ==
    \A h \in hubs :
        \A i \in 1..Len(handled[h]) :
            LET m == handled[h][i] IN
            (m.MessageType = "PLACE_ORDER" /\ m.shape = "noOrder") =>
                /\ \A k \in 1..Len(engineCalls) : engineCalls[k].msg # m.id
                /\ i = Len(handled[h]) => (~PanickedIn(h) /\ inPc[h] = "recv")

\* C7: on each hub the events are written in the order they were put on the
\* events channel: the event ids, which grow with each emission, grow along
\* the writes made, the write in progress and the events still queued.
C7_OutboundFifo ==
    \A h \in hubs :
        LET s == [i \in 1..Len(Attempts(h)) |-> Attempts(h)[i].evid]
                    \o [i \in 1..Len(events[h]) |-> events[h][i].evid]
        IN \A i, j \in 1..Len(s) : i < j => s[i] < s[j]

\* Two events of different kinds have been written on a hub that has also
\* handled an inbound message.
C7_TwoEventsWritten ==
    \E h \in hubs :
        /\ Len(writes[h]) = 2
        /\ writes[h][1].MessageType # writes[h][2].MessageType
        /\ Len(handled[h]) >= 1

\* C8: a CANCEL_ORDER or SIGNED_DATA message whose payload does not decode
\* causes no engine call and no panic.
C8_UndecodableMessageDropped ==
    \A h \in hubs :
        \A i \in 1..Len(handled[h]) :
            LET m == handled[h][i] IN
            (m.MessageType \in {"CANCEL_ORDER", "SIGNED_DATA"}
                 /\ m.shape # "wellFormed") =>
                /\ \A k \in 1..Len(engineCalls) : engineCalls[k].msg # m.id
                /\ i = Len(handled[h]) => ~PanickedIn(h)

\* C9: every write on a connection is the write of a received event, and the
\* step in which an engine call returns an error changes nothing on the
\* outbound side and leaves handleMessagesIn at its receive, not panicked.
C9_EngineErrorNotSurfaced ==
    /\ [](\A h \in hubs :
            \A i \in 1..Len(Attempts(h)) :
                \E j \in 1..Len(taken[h]) :
                    /\ taken[h][j].evid = Attempts(h)[i].evid
                    /\ Sendable(taken[h][j]))
    /\ [][\A h \in hubs :
            (inPc[h] = "engine" /\ engineCalls'[inCall[h]].ret = "err") =>
                /\ writes' = writes
                /\ outMsg' = outMsg
                /\ outPc' = outPc
                /\ inPc'[h] = "recv"
                /\ messagesIn'[h] = messagesIn[h]
                /\ ~crashed']_vars

\* An engine call returned an error and the same hub made a later call.
C9_CallAfterEngineError ==
    \E i, j \in 1..Len(engineCalls) :
        /\ i < j
        /\ engineCalls[i].hub = engineCalls[j].hub
        /\ engineCalls[i].ret = "err"

\* Nothing is left for hub h to do, now or later: its channels are empty,
\* no engine call or write is in progress, and the engine holds no entity
\* with h's events channel attached.
Idle(h) ==
    /\ messagesIn[h] = <<>> /\ events[h] = <<>>
    /\ inPc[h] # "engine" /\ outPc[h] # "write"
    /\ \A s \in sinks : s.hub # h

\* C10: once the read loop has ended and nothing is left to do, the two
\* dispatch loops have ended as well.
C10_TeardownStopsLoops ==
    \A h \in hubs :
        (readPc[h] = "exited" /\ ~crashed /\ Idle(h)) =>
            (inPc[h] = "exited" /\ outPc[h] = "exited")

\* C11 as stated: while handleMessagesIn is inside an engine call, the read
\* loop is never blocked in its send on messagesIn.
C11_ReaderNeverBlockedDuringEngineCall ==
    \A h \in hubs :
        (inPc[h] = "engine" /\ ~crashed) =>
            ~(readPc[h] = "send" /\ ~ENABLED PushMessageIn(h))

\* C11 as amended: while handleMessagesIn is inside an engine call, the read
\* loop's send on messagesIn goes through whenever the channel holds fewer
\* messages than its capacity, and blocks only when the channel is full; a
\* read loop at its read can take the next frame.
C11_ReaderBlockedOnlyByFullChannel ==
    \A h \in hubs :
        (inPc[h] = "engine" /\ ~crashed) =>
            /\ readPc[h] = "send" =>
                  (ENABLED PushMessageIn(h) <=> Len(messagesIn[h]) < chanCap)
            /\ (readPc[h] = "read" /\ connOpen[h] /\ nRead + nEmitted < MaxInputs)
                  => ENABLED ReadFrame(h)

\* During an engine call the read loop has filled a channel of capacity two.
C11_ChannelFilledDuringEngineCall ==
    \E h \in hubs :
        /\ inPc[h] = "engine"
        /\ chanCap = 2
        /\ Len(messagesIn[h]) = chanCap
        /\ \A i \in 1..Len(messagesIn[h]) :
              messagesIn[h][i].id > engineCalls[inCall[h]].msg

----------------------------------------------------------------------------
(* Properties of two hubs on one engine.                                   *)

\* Hub a has failed on its inbound side: its read loop has ended, or its
\* handleMessagesIn has panicked.
FailedInbound(a) == readPc[a] = "exited" \/ PanickedIn(a)

\* C12: when hub a has failed on its inbound side, every loop of another
\* hub b that has something to do can still do it.
C12_HubFailureIsolated ==
    \A a, b \in hubs :
        (a # b /\ FailedInbound(a)) =>
            /\ (readPc[b] = "send" /\ Len(messagesIn[b]) < chanCap)
                  => ENABLED PushMessageIn(b)
            /\ (messagesIn[b] # <<>> /\ inPc[b] = "recv")
                  => ENABLED handleMessagesIn(b)
            /\ (events[b] # <<>> /\ outPc[b] = "recv") => ENABLED TakeEvent(b)
            /\ outPc[b] = "write" => ENABLED WriteJSON(b, FALSE)

\* The entity an engine call passed: the one decoded from its message, or
\* the empty entity 0 when the payload did not decode.
EntOf(c) == IF c.decoded THEN c.msg ELSE 0

IsSubmission(c) == c.op \in {"AddOrder", "ExecuteOrder"}

\* C18: every order passed to AddOrder and every trade passed to
\* ExecuteOrder has the events channel of the calling hub attached, and
\* every event queued, received or written on a hub is about an entity that
\* this hub passed to the engine; an entity decoded from a message is only
\* ever reported to the hub that received the message.
C18_EventsReachSubmittingHub ==
    /\ \A k \in 1..Len(engineCalls) :
          IsSubmission(engineCalls[k]) => engineCalls[k].sink = engineCalls[k].hub
    /\ \A h \in hubs :
          LET ents == {Attempts(h)[i].ent : i \in 1..Len(Attempts(h))}
                         \cup {taken[h][i].ent : i \in 1..Len(taken[h])}
                         \cup {events[h][i].ent : i \in 1..Len(events[h])}
          IN \A e \in ents :
                /\ \E k \in 1..Len(engineCalls) :
                      /\ IsSubmission(engineCalls[k])
                      /\ engineCalls[k].hub = h
                      /\ EntOf(engineCalls[k]) = e
                /\ e # 0 => \A k \in 1..Len(engineCalls) :
                               EntOf(engineCalls[k]) = e => engineCalls[k].hub = h

\* Both hubs have passed an entity to the engine and an event about hub 2's
\* entity has been written on hub 2's connection.
C18_EventWrittenOnSecondHub ==
    /\ \E k \in 1..Len(engineCalls) :
          IsSubmission(engineCalls[k]) /\ engineCalls[k].hub = 1
    /\ \E i \in 1..Len(writes[2]) : writes[2][i].ent # 0 /\ writes[2][i].ok

----------------------------------------------------------------------------
(* Properties of the read loop.                                            *)

\* The messages listenToMessagesIn of h has pushed onto s.messagesIn, oldest
\* first: those handleMessagesIn has received, then those still queued.
Pushed(h) == handled[h] \o messagesIn[h]

\* The messages ReadJSON has decoded on h: those pushed, then the one held.
Decoded(h) == Pushed(h) \o (IF readPc[h] = "send" THEN <<readMsg[h]>> ELSE <<>>)

\* C14: every decoded message is, once and in arrival order, either pushed
\* onto messagesIn or held by the read loop for the push that is its next
\* step; a ReadJSON error of any kind ends the read loop with nothing held,
\* an ended read loop has returned on an error and stays ended, and nothing
\* is pushed after it has ended.
C14_ReadLoopPushesInOrderUntilError ==
    /\ [](/\ UNION {{Decoded(h)[i].id : i \in 1..Len(Decoded(h))} : h \in hubs}
                = 1..nRead
          /\ \A h \in hubs :
                /\ \A i, j \in 1..Len(Decoded(h)) :
                      i < j => Decoded(h)[i].id < Decoded(h)[j].id
                /\ readPc[h] = "exited" <=> readErr[h] # "none"
                /\ readPc[h] = "exited" => readMsg[h] = NoMsg
                /\ (readPc[h] = "send" /\ ~crashed /\ Len(messagesIn[h]) < chanCap)
                      => ENABLED PushMessageIn(h))
    /\ [][\A h \in hubs :
            /\ readPc[h] = "exited" =>
                  /\ readPc'[h] = "exited"
                  /\ Pushed(h)' = Pushed(h)
            /\ readPc[h] = "send" =>
                  \/ readPc'[h] = "send" /\ Pushed(h)' = Pushed(h)
                  \/ readPc'[h] = "read" /\ Pushed(h)' = Append(Pushed(h), readMsg[h])
            /\ readPc[h] = "read" => Pushed(h)' = Pushed(h)]_vars

\* The read loop has pushed two messages and then ended on an invalid
\* payload, with the connection still open.
C14_ReadLoopEndedAfterTwoPushes ==
    \E h \in hubs :
        /\ readPc[h] = "exited" /\ readErr[h] = "invalidPayload"
        /\ Len(Pushed(h)) = 2

----------------------------------------------------------------------------
(* Properties of the outbound loop's error handling.                       *)

\* WriteJSON on h's connection returns an error in this step.
WriteFails(h) ==
    /\ Len(writes'[h]) = Len(writes[h]) + 1
    /\ ~writes'[h][Len(writes'[h])].ok

\* C15: a failed WriteJSON leaves handleMessagesOut at its receive, with no
\* panic and the events channel as it was; at its receive the loop takes the
\* next event whenever one is queued; and an event whose write failed has
\* no second write and is not in the channel again.
C15_FailedWriteNeitherStopsNorRetries ==
    /\ [](\A h \in hubs :
            /\ (outPc[h] = "recv" /\ events[h] # <<>> /\ ~crashed)
                  => ENABLED TakeEvent(h)
            /\ outPc[h] \in {"recv", "write"}
            /\ \A i \in 1..Len(writes[h]) :
                  ~writes[h][i].ok =>
                      /\ \A k \in 1..Len(Attempts(h)) :
                            Attempts(h)[k].evid = writes[h][i].evid => k = i
                      /\ \A k \in 1..Len(events[h]) :
                            events[h][k].evid # writes[h][i].evid)
    /\ [][\A h \in hubs :
            WriteFails(h) =>
                /\ outPc'[h] = "recv"
                /\ events'[h] = events[h]
                /\ panicked' = panicked]_vars

\* The write for one event failed and the write for the next event taken
\* was made after it.
C15_WriteAfterFailedWrite ==
    \E h \in hubs :
        /\ Len(writes[h]) >= 2
        /\ ~writes[h][1].ok
        /\ writes[h][2].evid > writes[h][1].evid

----------------------------------------------------------------------------
(* Properties of contract violations.                                      *)

\* The kinds handleMessagesIn has a case for.
KnownMessageKinds == InboundKinds \cup {"DONE"}

\* An event whose kind has no case in handleMessagesOut, or whose payload is
\* not of the type its kind expects.
ViolatesContract(e) ==
    \/ e.eventType \notin EventTypes \cup {"DONE"}
    \/ e.eventType \in EventTypes /\ e.ptype # AssertedType(e.eventType)

\* C16: a received message of a kind without a case is the last one its hub
\* received, the process has panicked in that hub's handleMessagesIn and no
\* engine call was made for the message; a received event that violates the
\* contract is the last one its hub received, the process has panicked in
\* that hub's handleMessagesOut and no write was made or started for it.
C16_ContractViolationFatalWithoutEffect ==
    \A h \in hubs :
        /\ \A i \in 1..Len(handled[h]) :
              handled[h][i].MessageType \notin KnownMessageKinds =>
                  /\ PanickedIn(h)
                  /\ i = Len(handled[h])
                  /\ inPc[h] = "recv"
                  /\ \A k \in 1..Len(engineCalls) :
                        engineCalls[k].msg # handled[h][i].id
        /\ \A j \in 1..Len(taken[h]) :
              ViolatesContract(taken[h][j]) =>
                  /\ panicked = [by |-> "handleMessagesOut", hub |-> h]
                  /\ j = Len(taken[h])
                  /\ outPc[h] = "recv"
                  /\ AttemptsFor(h, taken[h][j]) = {}

\* After one write, handleMessagesOut has panicked on an event of a known
\* kind whose payload has another type than the kind expects.
C16_PanickedOnPayloadTypeMismatch ==
    \E h \in hubs :
        /\ panicked = [by |-> "handleMessagesOut", hub |-> h]
        /\ Len(writes[h]) = 1
        /\ Len(taken[h]) = 2
        /\ taken[h][2].eventType \in EventTypes
        /\ taken[h][2].ptype # AssertedType(taken[h][2].eventType)

----------------------------------------------------------------------------
(* Properties of DONE.                                                     *)

\* handleMessagesIn of h receives a DONE message in this step.
ReceivesDoneMessage(h) ==
    /\ Len(handled'[h]) = Len(handled[h]) + 1
    /\ handled'[h][Len(handled'[h])].MessageType = "DONE"

\* handleMessagesOut of h receives a DONE event in this step.
ReceivesDoneEvent(h) ==
    /\ Len(taken'[h]) = Len(taken[h]) + 1
    /\ taken'[h][Len(taken'[h])].eventType = "DONE"

\* C17: no engine call is made for a DONE message and no write for a DONE
\* event; the step that receives either leaves its loop at the receive,
\* makes no engine call and no write and raises no panic; and at its
\* receive each loop takes the next item whenever one is queued.
C17_DoneIsNoOp ==
    /\ [](\A h \in hubs :
            /\ \A i \in 1..Len(handled[h]) :
                  handled[h][i].MessageType = "DONE" =>
                      \A k \in 1..Len(engineCalls) :
                          engineCalls[k].msg # handled[h][i].id
            /\ \A j \in 1..Len(taken[h]) :
                  taken[h][j].eventType = "DONE" => AttemptsFor(h, taken[h][j]) = {}
            /\ (inPc[h] = "recv" /\ messagesIn[h] # <<>> /\ ~crashed)
                  => ENABLED handleMessagesIn(h)
            /\ (outPc[h] = "recv" /\ events[h] # <<>> /\ ~crashed)
                  => ENABLED TakeEvent(h))
    /\ [][\A h \in hubs :
            /\ ReceivesDoneMessage(h) =>
                  /\ inPc'[h] = "recv"
                  /\ engineCalls' = engineCalls
                  /\ panicked' = panicked
            /\ ReceivesDoneEvent(h) =>
                  /\ outPc'[h] = "recv"
                  /\ writes' = writes
                  /\ panicked' = panicked]_vars

\* A DONE message was received and the message after it reached the engine;
\* then a DONE event was received, and the process is still running.
C17_DoneThenNextItem ==
    \E h \in hubs :
        /\ ~crashed
        /\ Len(handled[h]) = 2
        /\ handled[h][1].MessageType = "DONE"
        /\ \E k \in 1..Len(engineCalls) : engineCalls[k].msg = handled[h][2].id
        /\ Len(taken[h]) = 1
        /\ taken[h][1].eventType = "DONE"
        /\ outPc[h] = "recv"

----------------------------------------------------------------------------
(* Properties of the use of the connection.                                *)

\* The goroutines of a Socket, and where each one is.
Loops == {"listenToMessagesIn", "handleMessagesIn", "handleMessagesOut"}

LoopPc(h, g) ==
    CASE g = "listenToMessagesIn" -> readPc[h]
      [] g = "handleMessagesIn" -> inPc[h]
      [] g = "handleMessagesOut" -> outPc[h]

\* The goroutines inside s.connection.WriteJSON, and inside ReadJSON.
Writers(h) == {g \in Loops : LoopPc(h, g) = "write"}
Readers(h) == {g \in Loops : LoopPc(h, g) = "read"}

\* C20: on each connection at most one WriteJSON and at most one ReadJSON is
\* in progress, the write in handleMessagesOut and the read in
\* listenToMessagesIn; every write that completes is the one
\* handleMessagesOut had in progress, and every frame decoded or read error
\* returned comes from a ReadJSON that listenToMessagesIn had in progress.
C20_SingleWriterSingleReader ==
    /\ [](\A h \in hubs :
            /\ Cardinality(Writers(h)) <= 1
            /\ Cardinality(Readers(h)) <= 1
            /\ Writers(h) \subseteq {"handleMessagesOut"}
            /\ Readers(h) \subseteq {"listenToMessagesIn"})
    /\ [][/\ \A h \in hubs :
               /\ writes'[h] # writes[h] =>
                     /\ outPc[h] = "write" /\ outPc'[h] = "recv"
                     /\ Len(writes'[h]) = Len(writes[h]) + 1
                     /\ writes'[h][Len(writes'[h])].evid = outMsg[h].evid
               /\ (readMsg'[h] # readMsg[h] /\ readMsg'[h] # NoMsg) =>
                     readPc[h] = "read" /\ readPc'[h] = "send"
               /\ readErr'[h] # readErr[h] =>
                     readPc[h] = "read" /\ readPc'[h] = "exited"
          /\ nRead' # nRead =>
               \E h \in hubs : readMsg'[h] # readMsg[h] /\ readMsg'[h] # NoMsg]_vars

\* A write and a read are in progress on a connection while handleMessagesIn
\* is inside an engine call, after an earlier engine call returned an error.
C20_WriteReadAndEngineCallInProgress ==
    \E h \in hubs :
        /\ outPc[h] = "write" /\ readPc[h] = "read" /\ connOpen[h]
        /\ inPc[h] = "engine"
        /\ \E k \in 1..Len(engineCalls) :
              engineCalls[k].hub = h /\ engineCalls[k].ret = "err"

====
